---------------------------- MODULE Spec2Model ----------------------------
(***************************************************************************)
(* Tind: the response generator, the content filter and the conversation   *)
(* store of src/src/agent.py, with the front ends of src/src/app.py that   *)
(* call them.                                                              *)
(*                                                                         *)
(* A Python str is a sequence of characters, each character a one-symbol   *)
(* TLA+ string; a character outside ASCII is written by its code point     *)
(* ("u00e1" is a-acute).  A Python list is a sequence.                     *)
(***************************************************************************)
EXTENDS Naturals, Sequences, FiniteSets

(***************************************************************************)
(* Bounds of the model.                                                    *)
(***************************************************************************)
\* number of request threads of the web server
NThreads == 2
\* total number of save_conversation calls in a run
MaxCalls == 2
\* largest num_responses asked of generate_responses
MaxCount == 11
\* largest menu number typed at the CLI prompt
MaxChoice == 1
\* most tokens a failed write stops short of the end of the text
MaxLost == 1

(***************************************************************************)
(* str primitives.                                                         *)
(***************************************************************************)
\* characters str.strip() removes
Whitespace == {" ", "\t", "\n"}

\* str.strip(): drop leading and trailing whitespace
RECURSIVE LStrip(_)
LStrip(s) ==
  IF s # <<>> /\ Head(s) \in Whitespace THEN LStrip(Tail(s)) ELSE s

RECURSIVE RStrip(_)
RStrip(s) ==
  IF s # <<>> /\ s[Len(s)] \in Whitespace
    THEN RStrip(SubSeq(s, 1, Len(s) - 1))
    ELSE s

Strip(s) == RStrip(LStrip(s))

\* Python truthiness of a str or a list: non-empty
Truthy(s) == Len(s) > 0

\* w in s, for two str: w occurs as a contiguous substring of s
Contains(s, w) ==
  \E i \in 0..Len(s) :
    i + Len(w) <= Len(s) /\ SubSeq(s, i + 1, i + Len(w)) = w

\* x in xs, for a list xs: some element equals x
Member(xs, x) == \E i \in 1..Len(xs) : xs[i] = x

\* agent.py:53-53
SadWords ==
  <<<<"t","r","i","s","t","e">>,
    <<"d","o","w","n">>,
    <<"c","h","a","t","e","a","d","o">>,
    <<"d","e","p","r","i","m","i","d","o">>,
    <<"s","a","d">>,
    <<"u","p","s","e","t">>,
    <<"d","e","p","r","e","s","s","e","d">>>>

\* agent.py:54-60
SadPool ==
  <<<<"S","i","n","t","o"," ","m","u","i","t","o"," ","s","a","b","e","r"," ","d","i","s","s","o","."," ","H","u00e1"," ","a","l","g","o"," ","q","u","e"," ","e","u"," ","p","o","s","s","a"," ","f","a","z","e","r"," ","p","a","r","a"," ","a","j","u","d","a","r","?">>,
    <<"u00c9"," ","n","o","r","m","a","l"," ","s","e"," ","s","e","n","t","i","r"," ","t","r","i","s","t","e"," ","u00e0","s"," ","v","e","z","e","s","."," ","E","s","t","o","u"," ","a","q","u","i"," ","p","a","r","a"," ","v","o","c","u00ea",".">>,
    <<"M","a","n","d","a","n","d","o"," ","u","m"," ","a","b","r","a","u00e7","o"," ","v","i","r","t","u","a","l","."," ","u1f917">>,
    <<"E","s","t","o","u"," ","a","q","u","i"," ","p","a","r","a"," ","t","e"," ","o","u","v","i","r"," ","s","e"," ","q","u","i","s","e","r"," ","c","o","n","v","e","r","s","a","r"," ","s","o","b","r","e"," ","i","s","s","o",".">>,
    <<"L","e","m","b","r","e","-","s","e"," ","d","e"," ","q","u","e"," ","e","s","s","e"," ","s","e","n","t","i","m","e","n","t","o"," ","v","a","i"," ","p","a","s","s","a","r","."," ","V","o","c","u00ea"," ","u00e9"," ","m","a","i","s"," ","f","o","r","t","e"," ","d","o"," ","q","u","e"," ","i","m","a","g","i","n","a",".">>>>

\* agent.py:61-61
GreetingWords ==
  <<<<"o","l","u00e1">>,
    <<"o","i">>,
    <<"h","e","y">>,
    <<"h","e","l","l","o">>,
    <<"h","i">>>>

\* agent.py:62-68
GreetingPool ==
  <<<<"O","i","!"," ","Q","u","e"," ","b","o","m"," ","t","e"," ","c","o","n","h","e","c","e","r","!"," ","C","o","m","o"," ","e","s","t","u00e1"," ","s","e","n","d","o"," ","s","e","u"," ","d","i","a","?">>,
    <<"H","e","y","!"," ","V","o","c","u00ea"," ","p","a","r","e","c","e"," ","i","n","t","e","r","e","s","s","a","n","t","e"," ","-"," ","o"," ","q","u","e"," ","t","e"," ","t","r","o","u","x","e"," ","a","q","u","i"," ","h","o","j","e","?">>,
    <<"O","l","u00e1","!"," ","E","s","t","a","v","a"," ","p","e","n","s","a","n","d","o"," ","q","u","e"," ","e","s","t","a"," ","c","o","n","v","e","r","s","a"," ","p","r","e","c","i","s","a","v","a"," ","d","e"," ","a","l","g","u","u00e9","m"," ","c","o","m","o"," ","v","o","c","u00ea",".">>,
    <<"O","i","!"," ","T","e","n","h","o"," ","q","u","e"," ","d","i","z","e","r",","," ","v","o","c","u00ea"," ","t","e","m"," ","u","m"," ","t","i","m","i","n","g"," ","p","e","r","f","e","i","t","o","."," ","E"," ","a","u00ed","?">>,
    <<"H","e","y","!"," ","P","r","o","n","t","o"," ","p","a","r","a"," ","u","m","a"," ","c","o","n","v","e","r","s","a"," ","i","n","c","r","u00ed","v","e","l","?">>>>

\* agent.py:69-69
PositiveWords ==
  <<<<"f","e","l","i","z">>,
    <<"b","o","m">>,
    <<"u00f3","t","i","m","o">>,
    <<"i","n","c","r","u00ed","v","e","l">>,
    <<"h","a","p","p","y">>,
    <<"g","o","o","d">>,
    <<"g","r","e","a","t">>,
    <<"a","w","e","s","o","m","e">>>>

\* agent.py:70-76
PositivePool ==
  <<<<"Q","u","e"," ","m","a","r","a","v","i","l","h","o","s","o"," ","s","a","b","e","r"," ","d","i","s","s","o","!"," ","S","u","a"," ","e","n","e","r","g","i","a"," ","p","o","s","i","t","i","v","a"," ","u00e9"," ","c","o","n","t","a","g","i","a","n","t","e",".">>,
    <<"A","d","o","r","o"," ","s","e","u"," ","e","n","t","u","s","i","a","s","m","o","!"," ","O"," ","q","u","e"," ","e","s","t","u00e1"," ","t","e"," ","d","e","i","x","a","n","d","o"," ","t","u00e3","o"," ","f","e","l","i","z","?">>,
    <<"S","e","u"," ","b","o","m"," ","h","u","m","o","r"," ","a","c","a","b","o","u"," ","d","e"," ","m","e","l","h","o","r","a","r"," ","m","e","u"," ","d","i","a"," ","t","a","m","b","u00e9","m","!">>,
    <<"I","s","s","o"," ","u00e9"," ","i","n","c","r","u00ed","v","e","l","!"," ","A","d","o","r","a","r","i","a"," ","s","a","b","e","r"," ","m","a","i","s"," ","s","o","b","r","e"," ","o"," ","q","u","e"," ","e","s","t","u00e1"," ","i","n","d","o"," ","b","e","m",".">>,
    <<"S","u","a"," ","f","e","l","i","c","i","d","a","d","e"," ","u00e9"," ","c","o","n","t","a","g","i","o","s","a"," ","-"," ","c","o","n","t","i","n","u","e"," ","e","s","p","a","l","h","a","n","d","o"," ","e","s","s","a","s"," ","b","o","a","s"," ","v","i","b","r","a","u00e7","u00f5","e","s","!">>>>

\* agent.py:79-85
DefaultPool ==
  <<<<"I","s","s","o"," ","u00e9"," ","i","n","t","e","r","e","s","s","a","n","t","e","!"," ","M","e"," ","c","o","n","t","a"," ","m","a","i","s"," ","s","o","b","r","e"," ","i","s","s","o",".">>,
    <<"A","c","h","o"," ","i","s","s","o"," ","f","a","s","c","i","n","a","n","t","e","."," ","Q","u","a","l"," ","u00e9"," ","s","u","a"," ","o","p","i","n","i","u00e3","o"," ","s","o","b","r","e"," ","i","s","s","o","?">>,
    <<"V","o","c","u00ea"," ","t","e","m"," ","u","m","a"," ","p","e","r","s","p","e","c","t","i","v","a"," ","u00fa","n","i","c","a","."," ","A","d","o","r","a","r","i","a"," ","o","u","v","i","r"," ","m","a","i","s",".">>,
    <<"I","s","s","o"," ","c","h","a","m","o","u"," ","m","i","n","h","a"," ","a","t","e","n","u00e7","u00e3","o","."," ","O"," ","q","u","e"," ","t","e"," ","f","e","z"," ","p","e","n","s","a","r"," ","n","i","s","s","o","?">>,
    <<"P","o","n","t","o"," ","i","n","t","e","r","e","s","s","a","n","t","e","!"," ","C","o","m","o"," ","v","o","c","u00ea"," ","c","h","e","g","o","u"," ","a"," ","e","s","s","a"," ","c","o","n","c","l","u","s","u00e3","o","?">>>>

\* agent.py:48
Invitation ==
  <<"E","u"," ","a","d","o","r","a","r","i","a"," ","c","o","n","v","e","r","s","a","r","!"," ","O"," ","q","u","e"," ","e","s","t","u00e1"," ","p","e","n","s","a","n","d","o","?">>

\* agent.py:16
OFFENSIVE_WORDS ==
  <<<<"u00f3","d","i","o">>,
    <<"m","a","t","a","r">>,
    <<"m","o","r","r","e","r">>,
    <<"m","a","c","h","u","c","a","r">>,
    <<"v","i","o","l","u00ea","n","c","i","a">>,
    <<"h","a","t","e">>,
    <<"k","i","l","l">>,
    <<"d","i","e">>,
    <<"h","u","r","t">>,
    <<"v","i","o","l","e","n","c","e">>>>

\* agent.py:99
Refusal ==
  <<"P","r","e","f","i","r","o"," ","m","a","n","t","e","r"," ","n","o","s","s","a"," ","c","o","n","v","e","r","s","a"," ","p","o","s","i","t","i","v","a"," ","e"," ","r","e","s","p","e","i","t","o","s","a",".">>

LowerChar(c) ==
  CASE c = "A" -> "a"
    [] c = "B" -> "b"
    [] c = "C" -> "c"
    [] c = "D" -> "d"
    [] c = "E" -> "e"
    [] c = "F" -> "f"
    [] c = "G" -> "g"
    [] c = "H" -> "h"
    [] c = "I" -> "i"
    [] c = "J" -> "j"
    [] c = "K" -> "k"
    [] c = "L" -> "l"
    [] c = "M" -> "m"
    [] c = "N" -> "n"
    [] c = "O" -> "o"
    [] c = "P" -> "p"
    [] c = "Q" -> "q"
    [] c = "R" -> "r"
    [] c = "S" -> "s"
    [] c = "T" -> "t"
    [] c = "U" -> "u"
    [] c = "V" -> "v"
    [] c = "W" -> "w"
    [] c = "X" -> "x"
    [] c = "Y" -> "y"
    [] c = "Z" -> "z"
    [] c = "u00c0" -> "u00e0"
    [] c = "u00c1" -> "u00e1"
    [] c = "u00c3" -> "u00e3"
    [] c = "u00c7" -> "u00e7"
    [] c = "u00c9" -> "u00e9"
    [] c = "u00ca" -> "u00ea"
    [] c = "u00cd" -> "u00ed"
    [] c = "u00d3" -> "u00f3"
    [] c = "u00d5" -> "u00f5"
    [] c = "u00da" -> "u00fa"
    [] OTHER -> c
\* str.lower()
Lower(s) == [i \in 1..Len(s) |-> LowerChar(s[i])]

\* any(word in text for word in words)
AnyWordIn(words, text) ==
  \E i \in 1..Len(words) : Contains(text, words[i])

(***************************************************************************)
(* TindAgent.generate_responses                                            *)
(***************************************************************************)
\* default of the parameter num_responses
DefaultNumResponses == 5

\* xs[:k] for k >= 0
Take(xs, k) == SubSeq(xs, 1, IF k < Len(xs) THEN k ELSE Len(xs))

\* the chain with the greeting test ahead of the sad test
SelectPoolGreetingFirst(context_lower) ==
  IF AnyWordIn(GreetingWords, context_lower) THEN GreetingPool
  ELSE IF AnyWordIn(SadWords, context_lower) THEN SadPool
  ELSE IF AnyWordIn(PositiveWords, context_lower) THEN PositivePool
  ELSE DefaultPool

\* the category chain of the if / elif / elif / else
SelectPool(context_lower) ==
  IF AnyWordIn(SadWords, context_lower) THEN SadPool
  ELSE IF AnyWordIn(GreetingWords, context_lower) THEN GreetingPool
  ELSE IF AnyWordIn(PositiveWords, context_lower) THEN PositivePool
  ELSE DefaultPool

\* one extension only: an if in place of the while
ExtendOnce(responses, num) ==
  IF Len(responses) < num
    THEN responses \o Take(responses, num - Len(responses))
    ELSE responses

\* while len(responses) < num: responses.extend(responses[:num - len(responses)])
RECURSIVE ExtendLoop(_, _)
ExtendLoop(responses, num) ==
  IF Len(responses) < num
    THEN ExtendLoop(responses \o Take(responses, num - Len(responses)), num)
    ELSE responses

generate_responses(context, num_responses) ==
  IF ~Truthy(context) \/ ~Truthy(Strip(context))
    THEN <<Invitation>>
    ELSE Take(ExtendLoop(SelectPool(Strip(Lower(context))), num_responses),
              num_responses)

(***************************************************************************)
(* TindAgent.filter_responses                                              *)
(***************************************************************************)
\* a filter that compares the candidate as written, without lower()
filter_responses_cased(responses) ==
  [i \in 1..Len(responses) |->
     IF AnyWordIn(OFFENSIVE_WORDS, responses[i])
       THEN Refusal
       ELSE responses[i]]

\* a filter that drops the matching candidates
filter_responses_dropping(responses) ==
  SelectSeq(responses,
            LAMBDA r : ~AnyWordIn(OFFENSIVE_WORDS, Lower(r)))

filter_responses(responses) ==
  [i \in 1..Len(responses) |->
     IF AnyWordIn(OFFENSIVE_WORDS, Lower(responses[i]))
       THEN Refusal
       ELSE responses[i]]

(***************************************************************************)
(* JSON text of the training log.  The text is a sequence of tokens, in    *)
(* the order json.dump writes them; a write that fails part-way leaves a   *)
(* prefix of it.  A responses value is [k |-> "list", v |-> list of str]   *)
(* or [k |-> "str", v |-> str] (a JSON client may send a bare string); it  *)
(* is one token of the text.                                               *)
(***************************************************************************)
Punct(t) == [t |-> t, s |-> <<>>]
StrTok(s) == [t |-> "str", s |-> s]
ListTok(xs) == [t |-> "list", s |-> xs]

PyList(xs) == [k |-> "list", v |-> xs]
PyStr(s) == [k |-> "str", v |-> s]
\* a dict with the keys of a record, and None
PyDict(rec) == [k |-> "dict", v |-> rec]
PyNone == [k |-> "NoneType", v |-> <<>>]

DumpResponses(r) == IF r.k = "list" THEN ListTok(r.v) ELSE StrTok(r.v)

\* a record written with its chosen reply in the place of its context
DumpRecordMisplaced(rec) ==
  <<Punct("{"),
    Punct("key:context"), StrTok(rec.best_response),
    Punct("key:responses"), DumpResponses(rec.responses),
    Punct("key:best_response"), StrTok(rec.best_response),
    Punct("key:timestamp"), StrTok(rec.timestamp),
    Punct("}")>>

DumpRecord(rec) ==
  <<Punct("{"),
    Punct("key:context"), StrTok(rec.context),
    Punct("key:responses"), DumpResponses(rec.responses),
    Punct("key:best_response"), StrTok(rec.best_response),
    Punct("key:timestamp"), StrTok(rec.timestamp),
    Punct("}")>>

\* tokens of one record
RecordTokens == 10

RECURSIVE DumpRecords(_)
DumpRecords(recs) ==
  IF recs = <<>> THEN <<>>
  ELSE DumpRecord(Head(recs)) \o DumpRecords(Tail(recs))

\* json.dump(existing_data, f, indent=2, ensure_ascii=False)
json_dump(data) == <<Punct("[")>> \o DumpRecords(data) \o <<Punct("]")>>

TokAt(toks, i) == IF i \in 1..Len(toks) THEN toks[i].t ELSE "eof"

\* whether the tokens that follow position p are those of a record
RecordOk(toks, p) ==
  /\ TokAt(toks, p + 1) = "{"
  /\ TokAt(toks, p + 2) = "key:context"
  /\ TokAt(toks, p + 3) = "str"
  /\ TokAt(toks, p + 4) = "key:responses"
  /\ TokAt(toks, p + 5) \in {"str", "list"}
  /\ TokAt(toks, p + 6) = "key:best_response"
  /\ TokAt(toks, p + 7) = "str"
  /\ TokAt(toks, p + 8) = "key:timestamp"
  /\ TokAt(toks, p + 9) = "str"
  /\ TokAt(toks, p + 10) = "}"

\* the dict the tokens that follow position p stand for
RecordOf(toks, p) ==
  [context |-> toks[p + 3].s,
   responses |-> IF toks[p + 5].t = "str" THEN PyStr(toks[p + 5].s)
                 ELSE PyList(toks[p + 5].s),
   best_response |-> toks[p + 7].s,
   timestamp |-> toks[p + 9].s]

\* json.load(f): the value the text stands for (an array of records, one
\* object, a string or null), or a failure (JSONDecodeError)
json_load(text) ==
  IF /\ Len(text) >= 2
     /\ text[1].t = "["
     /\ text[Len(text)].t = "]"
     /\ (Len(text) - 2) % RecordTokens = 0
     /\ \A k \in 1..((Len(text) - 2) \div RecordTokens) :
          RecordOk(text, 1 + (k - 1) * RecordTokens)
    THEN [ok |-> TRUE,
          val |-> PyList([k \in 1..((Len(text) - 2) \div RecordTokens) |->
                            RecordOf(text, 1 + (k - 1) * RecordTokens)])]
  ELSE IF Len(text) = RecordTokens /\ RecordOk(text, 0)
    THEN [ok |-> TRUE, val |-> PyDict(RecordOf(text, 0))]
  ELSE IF Len(text) = 1 /\ text[1].t = "str"
    THEN [ok |-> TRUE, val |-> PyStr(text[1].s)]
  ELSE IF Len(text) = 1 /\ text[1].t = "null"
    THEN [ok |-> TRUE, val |-> PyNone]
  ELSE [ok |-> FALSE, val |-> PyNone]

\* TindAgent._load_training_data; readError: open or read raised.  What
\* json.load gives is returned as it is.
load_training_data(f, readError) ==
  IF ~f.exists THEN PyList(<<>>)
  ELSE IF readError THEN PyList(<<>>)
  ELSE IF json_load(f.text).ok THEN json_load(f.text).val
  ELSE PyList(<<>>)

\* ModelTrainer.load_training_data (fine_tune.py): the same, but len(data)
\* is taken for the log message inside the try, and len(None) raises
ModelTrainer_load_training_data(f, readError) ==
  IF ~f.exists THEN PyList(<<>>)
  ELSE IF readError THEN PyList(<<>>)
  ELSE IF ~json_load(f.text).ok THEN PyList(<<>>)
  ELSE IF json_load(f.text).val.k = "NoneType" THEN PyList(<<>>)
  ELSE json_load(f.text).val

\* datetime.now().isoformat() at clock reading n, as a str of digits
Digit == <<"0", "1", "2", "3", "4", "5", "6", "7", "8", "9">>

RECURSIVE IsoFormat(_)
IsoFormat(n) ==
  IF n < 10 THEN <<Digit[n + 1]>>
  ELSE IsoFormat(n \div 10) \o <<Digit[(n % 10) + 1]>>

(***************************************************************************)
(* The conversation store and its callers.                                 *)
(***************************************************************************)
VARIABLES
  file,               \* the training-log file: [exists, text]
  lock,               \* file_lock: the thread holding it, or NoThread
  pc,                 \* per thread: where it is in its call
  req,                \* per thread: the arguments of its save_conversation
  conversation_data,  \* per thread: the record it is saving
  existing_data,      \* per thread: the list it loaded and appended to
  result,             \* per thread: what its call has just returned
  snap,               \* per thread: the log when it acquired the lock
  met,                \* per thread: the failures its call has met
  clock,              \* readings of datetime.now() so far, one per valid call
  ncalls,             \* calls made so far
  faulted,            \* whether any I/O failure happened so far
  gen_context,        \* generator run: the context given
  gen_count,          \* generator run: the num_responses given
  gen_out,            \* generator run: the list returned
  gen_pc,             \* generator run: "off", "call" or "done"
  flt_responses,      \* filter run: the list the caller passes
  flt_before,         \* filter run: that list as it was at the call
  flt_out,            \* filter run: the list returned
  flt_pc,             \* filter run: "off", "call" or "done"
  training_data,      \* reader: the value its last load returned
  rd_pc               \* reader: "idle", or who loaded last

storeVars == <<file, lock, pc, req, conversation_data, existing_data, result,
               snap, met, clock, ncalls, faulted>>
genVars == <<gen_context, gen_count, gen_out, gen_pc>>
fltVars == <<flt_responses, flt_before, flt_out, flt_pc>>
rdVars == <<training_data, rd_pc>>
vars == <<file, lock, pc, req, conversation_data, existing_data, result,
          snap, met, clock, ncalls, faulted,
          gen_context, gen_count, gen_out, gen_pc,
          flt_responses, flt_before, flt_out, flt_pc,
          training_data, rd_pc>>

Threads == 1..NThreads
NoThread == 0

NoReq == [context |-> <<>>, responses |-> PyList(<<>>), best_response |-> <<>>]
NoRecord == [context |-> <<>>, responses |-> PyList(<<>>),
             best_response |-> <<>>, timestamp |-> <<>>]

\* the records a reader gets from the file when its read does not fail
Log ==
  IF load_training_data(file, FALSE).k = "list"
    THEN load_training_data(file, FALSE).v
    ELSE <<>>

\* what the clients send
Contexts == {<<>>, <<" ">>, <<" ", "o", "i">>}
Bests == {<<>>, <<" ">>, <<"a", "b">>, <<"b", "a">>}
DirectBests == {<<>>, <<"a", "b", " ">>}
ListInputs == {PyList(<<>>), PyList(<<<<"a", "b">>>>)}
JsonInputs == ListInputs \cup {PyStr(<<"a", "b", "c">>)}

\* best_response in responses, as Python evaluates it
In(b, r) == IF r.k = "list" THEN Member(r.v, b) ELSE Contains(r.v, b)

\* no call under way, none made
InitCalls ==
  /\ lock = NoThread
  /\ pc = [t \in Threads |-> "idle"]
  /\ req = [t \in Threads |-> NoReq]
  /\ conversation_data = [t \in Threads |-> NoRecord]
  /\ existing_data = [t \in Threads |-> <<>>]
  /\ result = [t \in Threads |-> "none"]
  /\ snap = [t \in Threads |-> <<>>]
  /\ met = [t \in Threads |-> {}]
  /\ clock = 0
  /\ ncalls = 0
  /\ faulted = FALSE

\* the training log does not exist yet
InitStore ==
  /\ file = [exists |-> FALSE, text |-> <<>>]
  /\ InitCalls

\* no generator run
GenOff ==
  /\ gen_context = <<>>
  /\ gen_count = 0
  /\ gen_out = <<>>
  /\ gen_pc = "off"

\* no filter run
FilterOff ==
  /\ flt_responses = <<>>
  /\ flt_before = <<>>
  /\ flt_out = <<>>
  /\ flt_pc = "off"

\* no load by a reader yet
ReaderOff ==
  /\ training_data = PyList(<<>>)
  /\ rd_pc = "idle"

Init == InitStore /\ GenOff /\ FilterOff /\ ReaderOff

\* conversation_data = {...} (agent.py:112-117)
BuildRecord(context, responses, best_response) ==
  [context |-> Strip(context), responses |-> responses,
   best_response |-> Strip(best_response), timestamp |-> IsoFormat(clock)]

\* the call is over: its value goes to the caller, its locals are gone
Return(t, value) ==
  /\ result' = [result EXCEPT ![t] = value]
  /\ pc' = [pc EXCEPT ![t] = "ret"]
  /\ req' = [req EXCEPT ![t] = NoReq]
  /\ conversation_data' = [conversation_data EXCEPT ![t] = NoRecord]
  /\ existing_data' = [existing_data EXCEPT ![t] = <<>>]
  /\ snap' = [snap EXCEPT ![t] = <<>>]

\* the front end declines the request: save_conversation is not called
Reject(t) ==
  /\ Return(t, "rejected")
  /\ ncalls' = ncalls + 1
  /\ UNCHANGED <<file, lock, met, clock, faulted>>

\* entry of save_conversation: the validation and the record (agent.py:108-117)
save_conversation(t, context, responses, best_response) ==
  /\ ncalls' = ncalls + 1
  /\ IF ~Truthy(context) \/ ~Truthy(responses.v) \/ ~Truthy(best_response)
       THEN /\ Return(t, "False")
            /\ UNCHANGED clock
       ELSE /\ req' = [req EXCEPT ![t] =
                 [context |-> context, responses |-> responses,
                  best_response |-> best_response]]
            /\ conversation_data' = [conversation_data EXCEPT ![t] =
                 BuildRecord(context, responses, best_response)]
            /\ clock' = clock + 1
            /\ pc' = [pc EXCEPT ![t] = "acquire"]
            /\ UNCHANGED <<existing_data, result, snap>>
  /\ UNCHANGED <<file, lock, met, faulted>>

CanCall(t) == pc[t] = "idle" /\ ncalls < MaxCalls

\* a caller of the store other than the front ends
DirectSave(t) ==
  /\ CanCall(t)
  /\ \E c \in Contexts, r \in ListInputs, b \in DirectBests :
       save_conversation(t, c, r, b)
  /\ UNCHANGED <<genVars, fltVars, rdVars>>

\* app.py save_feedback: POST /save_feedback
save_feedback(t) ==
  /\ CanCall(t)
  /\ \E c \in Contexts, r \in ListInputs, b \in Bests :
       LET context == Strip(c)
           responses == r
           best_response == Strip(b)
       IN  IF ~(Truthy(context) /\ Truthy(responses.v) /\ Truthy(best_response))
             THEN Reject(t)
           ELSE IF ~In(best_response, responses)
             THEN Reject(t)
           ELSE save_conversation(t, context, responses, best_response)
  /\ UNCHANGED <<genVars, fltVars, rdVars>>

\* app.py api_save_feedback: POST /api/feedback
api_save_feedback(t) ==
  /\ CanCall(t)
  /\ \E c \in Contexts, r \in JsonInputs, b \in Bests :
       LET context == Strip(c)
           responses == r
           best_response == Strip(b)
       IN  IF ~(Truthy(context) /\ Truthy(responses.v) /\ Truthy(best_response))
             THEN Reject(t)
           ELSE IF ~In(best_response, responses)
             THEN Reject(t)
           ELSE save_conversation(t, context, responses, best_response)
  /\ UNCHANGED <<genVars, fltVars, rdVars>>

\* words that end the CLI loop (agent.py:192)
ExitWords == {<<"s", "a", "i", "r">>, <<"e", "x", "i", "t">>,
              <<"q", "u", "i", "t">>, <<"q">>}

\* agent.py main: one turn of the CLI loop; choice is the menu number typed
\* (0: none of the above; a number off the menu is asked for again)
main(t) ==
  /\ CanCall(t)
  /\ \E c \in Contexts :
       LET context == Strip(c)
       IN  IF Lower(context) \in ExitWords \/ ~Truthy(context)
             THEN Reject(t)
             ELSE LET filtered_responses ==
                        filter_responses(
                          generate_responses(context, DefaultNumResponses))
                  IN  \E choice \in 0..MaxChoice :
                        /\ choice <= Len(filtered_responses)
                        /\ IF choice = 0
                             THEN Reject(t)
                           ELSE IF ~Truthy(filtered_responses[choice])
                             THEN Reject(t)
                           ELSE save_conversation(t, context,
                                  PyList(filtered_responses),
                                  filtered_responses[choice])
  /\ UNCHANGED <<genVars, fltVars, rdVars>>

\* the front end has answered its client
Finish(t) ==
  /\ pc[t] = "ret"
  /\ pc' = [pc EXCEPT ![t] = "idle"]
  /\ result' = [result EXCEPT ![t] = "none"]
  /\ met' = [met EXCEPT ![t] = {}]
  /\ UNCHANGED <<file, lock, req, conversation_data, existing_data, snap,
                 clock, ncalls, faulted>>
  /\ UNCHANGED <<genVars, fltVars, rdVars>>

\* a lock that never makes its caller wait
CanAcquireAlways(t) == TRUE

\* with file_lock: blocks until the lock is free
CanAcquire(t) == lock = NoThread

Acquire(t) ==
  /\ pc[t] = "acquire"
  /\ CanAcquire(t)
  /\ lock' = t
  /\ snap' = [snap EXCEPT ![t] = Log]
  /\ pc' = [pc EXCEPT ![t] = "mkdir"]
  /\ UNCHANGED <<file, req, conversation_data, existing_data, result, met,
                 clock, ncalls, faulted>>
  /\ UNCHANGED <<genVars, fltVars, rdVars>>

\* an exception leaves the with block for the except clause
Raise(t, kind) ==
  /\ pc' = [pc EXCEPT ![t] = "except"]
  /\ met' = [met EXCEPT ![t] = @ \cup {kind}]
  /\ faulted' = TRUE

\* data_dir.mkdir(exist_ok=True)
Mkdir(t) ==
  /\ pc[t] = "mkdir"
  /\ \/ /\ pc' = [pc EXCEPT ![t] = "load"]
        /\ UNCHANGED <<met, faulted>>
     \/ Raise(t, "mkdir")
  /\ UNCHANGED <<file, lock, req, conversation_data, existing_data, result,
                 snap, clock, ncalls>>
  /\ UNCHANGED <<genVars, fltVars, rdVars>>

\* existing_data = self._load_training_data(); existing_data.append(...):
\* only a list has append (AttributeError otherwise)
LoadAppend(t) ==
  /\ pc[t] = "load"
  /\ \E readError \in BOOLEAN :
       /\ readError => file.exists
       /\ IF load_training_data(file, readError).k = "list"
            THEN /\ existing_data' = [existing_data EXCEPT ![t] =
                      Append(load_training_data(file, readError).v,
                             conversation_data[t])]
                 /\ pc' = [pc EXCEPT ![t] = "open"]
                 /\ IF readError \/ (file.exists /\ ~json_load(file.text).ok)
                      THEN /\ met' = [met EXCEPT ![t] = @ \cup {"read"}]
                           /\ faulted' = (faulted \/ readError)
                      ELSE UNCHANGED <<met, faulted>>
            ELSE /\ Raise(t, "append")
                 /\ UNCHANGED existing_data
  /\ UNCHANGED <<file, lock, req, conversation_data, result, snap, clock,
                 ncalls>>
  /\ UNCHANGED <<genVars, fltVars, rdVars>>

\* open(TRAINING_DATA_PATH, "w"): creates or truncates the file
OpenWrite(t) ==
  /\ pc[t] = "open"
  /\ \/ /\ file' = [exists |-> TRUE, text |-> <<>>]
        /\ pc' = [pc EXCEPT ![t] = "dump"]
        /\ UNCHANGED <<met, faulted>>
     \/ /\ Raise(t, "write")
        /\ UNCHANGED file
  /\ UNCHANGED <<lock, req, conversation_data, existing_data, result,
                 snap, clock, ncalls>>
  /\ UNCHANGED <<genVars, fltVars, rdVars>>

\* how much of the text a failed write leaves: none of it, or all but its
\* last 1..MaxLost tokens
Cuts(text) ==
  {0} \cup {Len(text) - k :
              k \in 1..(IF MaxLost < Len(text) THEN MaxLost ELSE Len(text))}

\* json.dump(...) and the close of the file: all of the text reaches the
\* disk, or the write fails after n tokens of it
Dump(t) ==
  /\ pc[t] = "dump"
  /\ LET text == json_dump(existing_data[t])
     IN  \E n \in Cuts(text) \cup {Len(text)} :
           /\ file' = [exists |-> TRUE, text |-> SubSeq(text, 1, n)]
           /\ IF n = Len(text)
                THEN /\ pc' = [pc EXCEPT ![t] = "saved"]
                     /\ UNCHANGED <<met, faulted>>
                ELSE Raise(t, "write")
  /\ UNCHANGED <<lock, req, conversation_data, existing_data, result,
                 snap, clock, ncalls>>
  /\ UNCHANGED <<genVars, fltVars, rdVars>>

\* return True, leaving the with block, which releases the lock
ReturnTrue(t) ==
  /\ pc[t] = "saved"
  /\ lock' = NoThread
  /\ Return(t, "True")
  /\ UNCHANGED <<file, met, clock, ncalls, faulted>>
  /\ UNCHANGED <<genVars, fltVars, rdVars>>

\* a lock left held when an exception leaves the block
HeldAfterRaise(t) == lock

\* the with block releases file_lock on an exception too
ReleasedAfterRaise(t) == NoThread

\* an except clause that lets the exception out to the caller
Propagates(t) == "raised"

\* except Exception as e: ...; return False
Caught(t) == "False"

Except(t) ==
  /\ pc[t] = "except"
  /\ lock' = ReleasedAfterRaise(t)
  /\ Return(t, Caught(t))
  /\ UNCHANGED <<file, met, clock, ncalls, faulted>>
  /\ UNCHANGED <<genVars, fltVars, rdVars>>

\* the steps of a call once save_conversation holds valid arguments
SaveStep(t) ==
  \/ Acquire(t)
  \/ Mkdir(t)
  \/ LoadAppend(t)
  \/ OpenWrite(t)
  \/ Dump(t)
  \/ ReturnTrue(t)
  \/ Except(t)
  \/ Finish(t)

(***************************************************************************)
(* The web application (app.py): one thread per request, all of them       *)
(* sharing the agent, file_lock and the file.                              *)
(***************************************************************************)
WebStep(t) ==
  \/ save_feedback(t)
  \/ api_save_feedback(t)
  \/ SaveStep(t)

Next == \E t \in Threads : WebStep(t)

Spec == Init /\ [][Next]_vars

\* a thread inside a call keeps running: the step of the call it can take,
\* it eventually takes (requests need not keep arriving)
FairSpec == Spec /\ \A t \in Threads : WF_vars(SaveStep(t))

(***************************************************************************)
(* The command-line program (agent.py main) and other single-threaded      *)
(* callers of save_conversation.                                           *)
(***************************************************************************)
MainThread == 1

NextCli ==
  \/ main(MainThread)
  \/ DirectSave(MainThread)
  \/ SaveStep(MainThread)

SpecCli == Init /\ [][NextCli]_vars

(***************************************************************************)
(* Runs of the response generator alone.                                   *)
(***************************************************************************)
\* the pieces the generator's contexts are made of
Fragments == {<<" ">>, <<"x">>, <<"S", "a", "d">>, <<"o", "i">>,
              <<"b", "o", "m">>}
MaxFragments == 3

RECURSIVE Joined(_)
Joined(n) ==
  IF n = 0 THEN {<<>>}
  ELSE Joined(n - 1) \cup {s \o f : s \in Joined(n - 1), f \in Fragments}

GenContexts == Joined(MaxFragments)

InitGen ==
  /\ InitStore
  /\ gen_context \in GenContexts
  /\ gen_count \in 1..MaxCount
  /\ gen_out = <<>>
  /\ gen_pc = "call"
  /\ FilterOff
  /\ ReaderOff

Generate ==
  /\ gen_pc = "call"
  /\ gen_out' = generate_responses(gen_context, gen_count)
  /\ gen_pc' = "done"
  /\ UNCHANGED <<gen_context, gen_count>>
  /\ UNCHANGED <<storeVars, fltVars, rdVars>>

NextGen == Generate

SpecGen == InitGen /\ [][NextGen]_vars


(***************************************************************************)
(* Runs of the content filter alone.                                       *)
(***************************************************************************)
\* the candidates the filter is given: clean ones, blank ones, and ones
\* holding a word of OFFENSIVE_WORDS in lower, upper or mixed case, alone
\* or inside a longer word
Candidates == {<<>>, <<" ">>, <<"o", "i">>, <<"h", "a", "t">>,
               <<"h", "a", "t", "e">>, <<"K", "I", "L", "L">>,
               <<"u00d3", "d", "i", "o">>, <<"a", "D", "i", "e", "t">>,
               Refusal, SadPool[1]}
MaxList == 2

RECURSIVE ListsOf(_)
ListsOf(n) ==
  IF n = 0 THEN {<<>>}
  ELSE ListsOf(n - 1) \cup {Append(xs, c) : xs \in ListsOf(n - 1), c \in Candidates}

InitFilter ==
  /\ InitStore
  /\ GenOff
  /\ ReaderOff
  /\ flt_responses \in ListsOf(MaxList)
  /\ flt_before = flt_responses
  /\ flt_out = <<>>
  /\ flt_pc = "call"

\* filtered = agent.filter_responses(responses): the result is a new list,
\* the one passed is only read
Filter ==
  /\ flt_pc = "call"
  /\ flt_out' = filter_responses(flt_responses)
  /\ flt_pc' = "done"
  /\ UNCHANGED <<flt_responses, flt_before>>
  /\ UNCHANGED <<storeVars, genVars, rdVars>>

NextFilter == Filter

SpecFilter == InitFilter /\ [][NextFilter]_vars

(***************************************************************************)
(* The readers of the training log that do not take file_lock: the /stats  *)
(* page (app.py) and the trainer (fine_tune.py).                           *)
(***************************************************************************)
\* app.py stats: training_data = agent._load_training_data(), then
\* len(training_data) for the page; a TypeError of len goes to the except
\* clause, which redirects
stats ==
  /\ \E readError \in BOOLEAN :
       /\ readError => file.exists
       /\ training_data' = load_training_data(file, readError)
       /\ faulted' = (faulted \/ readError)
  /\ rd_pc' = IF training_data'.k = "NoneType" THEN "redirected"
              ELSE "rendered"
  /\ UNCHANGED <<file, lock, pc, req, conversation_data, existing_data,
                 result, snap, met, clock, ncalls>>
  /\ UNCHANGED <<genVars, fltVars>>

\* fine_tune.py: training_data = self.load_training_data()
trainer_load ==
  /\ \E readError \in BOOLEAN :
       /\ readError => file.exists
       /\ training_data' = ModelTrainer_load_training_data(file, readError)
       /\ faulted' = (faulted \/ readError)
  /\ rd_pc' = "trainer"
  /\ UNCHANGED <<file, lock, pc, req, conversation_data, existing_data,
                 result, snap, met, clock, ncalls>>
  /\ UNCHANGED <<genVars, fltVars>>

\* a load by a reader
Read == stats \/ trainer_load

\* the web application with its readers, beside the saving threads
NextReaders == Next \/ Read

SpecReaders == Init /\ [][NextReaders]_vars

(***************************************************************************)
(* Loads of a training log left in any state.                              *)
(***************************************************************************)
\* records a log may hold
StoredRecords ==
  {[context |-> <<"o", "i">>, responses |-> PyList(<<<<"a", "b">>>>),
    best_response |-> <<"a", "b">>, timestamp |-> IsoFormat(0)],
   [context |-> <<"x">>, responses |-> PyStr(<<"a", "b", "c">>),
    best_response |-> <<"b">>, timestamp |-> IsoFormat(1)]}
MaxStored == 2

RECURSIVE LogsOf(_)
LogsOf(n) ==
  IF n = 0 THEN {<<>>}
  ELSE LogsOf(n - 1)
         \cup {Append(xs, r) : xs \in LogsOf(n - 1), r \in StoredRecords}

\* the texts the file may hold: a dumped log, whole or cut anywhere (the
\* empty text included), and JSON texts of other shapes: one object, a
\* string, null
Texts ==
  UNION {{SubSeq(json_dump(xs), 1, n) : n \in 0..Len(json_dump(xs))} :
           xs \in LogsOf(MaxStored)}
  \cup {DumpRecord(r) : r \in StoredRecords}
  \cup {<<StrTok(<<"a", "b", "c">>)>>, <<Punct("null")>>}

InitLoad ==
  /\ file \in {[exists |-> FALSE, text |-> <<>>]}
               \cup {[exists |-> TRUE, text |-> x] : x \in Texts}
  /\ InitCalls
  /\ GenOff
  /\ FilterOff
  /\ ReaderOff

NextLoad == Read

SpecLoad == InitLoad /\ [][NextLoad]_vars
(***************************************************************************)
(* Properties.                                                             *)
(***************************************************************************)
\* where a thread is inside the with file_lock block
Critical == {"mkdir", "load", "open", "dump", "saved", "except"}

\* no call is under way
Quiet == \A t \in Threads : pc[t] \in {"idle", "ret"}

Last(xs) == xs[Len(xs)]

\* the timestamps of the records of the log
Stamps(log) == {log[i].timestamp : i \in 1..Len(log)}

\* C1: when the calls with valid arguments made against the initially absent
\* log have all returned and none met an I/O failure, the log holds exactly
\* one record per call (as many records as calls, one for each timestamp
\* handed out), whatever the interleaving of the threads.
C1_NoLostUpdate ==
  (Quiet /\ ~faulted) =>
    /\ Len(Log) = clock
    /\ Stamps(Log) = {IsoFormat(n) : n \in 0..(clock - 1)}

\* all the calls the bound allows were valid, ran and returned
C1_Witness ==
  Quiet /\ ~faulted /\ clock = MaxCalls /\ clock >= 2 /\ Len(Log) = clock

\* C2: a thread between the creation of the directory and the end of its
\* rewrite of the file holds file_lock, so at most one thread is there: none
\* reads the log for its append while another is between its read and the
\* end of its rewrite.
C2_MutualExclusion ==
  /\ \A t \in Threads : pc[t] \in Critical => lock = t
  /\ \A t1, t2 \in Threads :
       (t1 # t2 /\ pc[t1] \in Critical) => pc[t2] \notin Critical

\* a thread waits for the lock while another rewrites the file
C2_Witness ==
  \E t1, t2 \in Threads :
    /\ t1 # t2
    /\ pc[t1] = "dump"
    /\ pc[t2] = "acquire"

\* C3: file_lock is free again and again: a call that holds it eventually
\* releases it, on every path (return True, a failure of the directory
\* creation, of the open or of the write; a failed read or parse goes on to
\* the write), so the lock is never held for ever and a later call is never
\* blocked for ever.
C3_LockReleased == []<>(lock = NoThread)

\* a call fails in the directory creation while it holds the lock
C3_Witness ==
  \E t \in Threads : lock = t /\ pc[t] = "except" /\ "mkdir" \in met[t]

\* C4, as stated: a call that met a failure while reading, parsing or
\* writing returns False.
C4_FalseOnAnyFailure ==
  \A t \in Threads :
    (pc[t] = "ret" /\ met[t] # {}) => result[t] = "False"

\* C4, amended: no call raises; a call that met a failure of the directory
\* creation or of the write returns False; a call that returns True met no
\* failure but, at most, one of the read or the parse of the existing log,
\* which _load_training_data absorbs.
C4_NeverRaises ==
  \A t \in Threads :
    /\ result[t] # "raised"
    /\ (pc[t] = "ret" /\ met[t] \cap {"mkdir", "write"} # {})
         => result[t] = "False"
    /\ (pc[t] = "ret" /\ result[t] = "True") => met[t] \subseteq {"read"}

\* a call has returned False after its write failed
C4_Witness ==
  \E t \in Threads :
    pc[t] = "ret" /\ "write" \in met[t] /\ result[t] = "False"

\* C5: a call that fails leaves the log as it was when the call took the
\* lock.
C5_FailedSaveKeepsLog ==
  \A t \in Threads : pc[t] = "except" => Log = snap[t]

\* C6: a call that succeeds leaves the log as it was when the call took the
\* lock, with its own record added at the end.
C6_AppendOnly ==
  \A t \in Threads :
    pc[t] = "saved" => Log = Append(snap[t], conversation_data[t])

\* C7, as stated: after a successful save the last record of the loaded log
\* has the context, the responses and the best_response of the call.
C7_LastEqualsArguments ==
  \A t \in Threads :
    pc[t] = "saved" =>
      /\ Log # <<>>
      /\ Last(Log).context = req[t].context
      /\ Last(Log).responses = req[t].responses
      /\ Last(Log).best_response = req[t].best_response

\* C7, amended: after a successful save the last record of the loaded log
\* has the context of the call with leading and trailing whitespace
\* stripped, the responses of the call, and the best_response of the call
\* with leading and trailing whitespace stripped.
C7_LastEqualsStripped ==
  \A t \in Threads :
    pc[t] = "saved" =>
      /\ Log # <<>>
      /\ Last(Log).context = Strip(req[t].context)
      /\ Last(Log).responses = req[t].responses
      /\ Last(Log).best_response = Strip(req[t].best_response)
      /\ Last(Log).timestamp = conversation_data[t].timestamp

\* a save has succeeded whose context and best_response strip() changes
C7_Witness ==
  \E t \in Threads :
    /\ pc[t] = "saved"
    /\ Strip(req[t].context) # req[t].context
    /\ Strip(req[t].best_response) # req[t].best_response
    /\ Strip(req[t].context) # <<>>

\* best_response equals one element of responses (the elements of a str are
\* its characters)
AmongResponses(rec) ==
  IF rec.responses.k = "list"
    THEN Member(rec.responses.v, rec.best_response)
    ELSE \E i \in 1..Len(rec.responses.v) :
           rec.best_response = <<rec.responses.v[i]>>

\* C8: every record the web front ends put in the log has its best_response
\* among its responses.
C8_BestAmongResponses ==
  /\ \A i \in 1..Len(Log) : AmongResponses(Log[i])
  /\ \A t \in Threads :
       pc[t] \in Critical \cup {"acquire"} => AmongResponses(conversation_data[t])

\* C9: the store takes no call whose context or best_response is empty or
\* whitespace only, and every record of the log has a non-empty context,
\* non-empty responses and a non-empty best_response.
C9_StoreValidates ==
  /\ \A t \in Threads :
       pc[t] \in Critical \cup {"acquire"} =>
         /\ Truthy(Strip(req[t].context))
         /\ Truthy(req[t].responses.v)
         /\ Truthy(Strip(req[t].best_response))
  /\ \A i \in 1..Len(Log) :
       /\ Truthy(Log[i].context)
       /\ Truthy(Log[i].responses.v)
       /\ Truthy(Log[i].best_response)

\* the pool generate_responses selects for a context
PoolOf(context) == SelectPool(Strip(Lower(context)))

\* C10: for a context that is not empty or whitespace only and a count of
\* at least 1, generate_responses returns exactly count items, item i
\* (from 0) being entry i mod (pool size) of the selected pool.
C10_CountAndCycle ==
  (gen_pc = "done" /\ Truthy(Strip(gen_context)) /\ gen_count >= 1) =>
    /\ Len(gen_out) = gen_count
    /\ \A i \in 0..(gen_count - 1) :
         gen_out[i + 1] = PoolOf(gen_context)[(i % Len(PoolOf(gen_context))) + 1]

\* a count above twice the pool size, for a context of the sad category
C10_Witness ==
  /\ gen_pc = "done"
  /\ Truthy(Strip(gen_context))
  /\ gen_count > 2 * Len(PoolOf(gen_context))
  /\ PoolOf(gen_context) = SadPool
  /\ Len(gen_out) = gen_count


\* every returned candidate is an entry of the pool
AllFrom(out, pool) == \A i \in 1..Len(out) : Member(pool, out[i])

\* the four pools share no sentence
PoolsDisjoint ==
  \A p, q \in {SadPool, GreetingPool, PositivePool, DefaultPool} :
    p # q => \A i \in 1..Len(p) : ~Member(q, p[i])

Denylisted(s) == AnyWordIn(OFFENSIVE_WORDS, Lower(s))

\* C12: whatever the list given to filter_responses, no string of the list
\* returned holds a word of the denylist, letter case aside: each given
\* string that holds one is answered by the fixed refusal sentence, which
\* holds none.
C12_NoDenylistedOutput ==
  /\ ~Denylisted(Refusal)
  /\ flt_pc = "done" =>
       /\ \A i \in 1..Len(flt_out) : ~Denylisted(flt_out[i])
       /\ \A i \in 1..Len(flt_before) :
            (i <= Len(flt_out) /\ Denylisted(flt_before[i]))
              => flt_out[i] = Refusal

\* a list whose candidates hold denylisted words in upper and in mixed
\* case, each answered by the refusal
C12_Witness ==
  /\ flt_pc = "done"
  /\ flt_before = <<<<"K", "I", "L", "L">>, <<"a", "D", "i", "e", "t">>>>
  /\ Denylisted(flt_before[1])
  /\ Denylisted(flt_before[2])
  /\ flt_out = <<Refusal, Refusal>>

\* C13: filter_responses returns a list as long as the one it is given,
\* every given string that holds no denylisted word stands unchanged at its
\* position in it, and the list given is as it was when the call was made.
C13_SameLengthAndOrder ==
  flt_pc = "done" =>
    /\ Len(flt_out) = Len(flt_before)
    /\ \A i \in 1..Len(flt_before) :
         (i <= Len(flt_out) /\ ~Denylisted(flt_before[i]))
           => flt_out[i] = flt_before[i]
    /\ flt_responses = flt_before

\* a clean candidate after a denylisted one: the first is replaced, the
\* second stays where it was
C13_Witness ==
  /\ flt_pc = "done"
  /\ Len(flt_before) = 2
  /\ Denylisted(flt_before[1])
  /\ ~Denylisted(flt_before[2])
  /\ flt_before[2] = <<"h", "a", "t">>
  /\ flt_out = <<Refusal, flt_before[2]>>
  /\ flt_responses = flt_before

\* the value is a list of records
ListOfRecords(v) == v.k = "list"

\* the file is missing, or its text is not JSON
MissingOrCorrupt == ~file.exists \/ ~json_load(file.text).ok

\* C14: whatever the state of the log file, a load (which never raises: each
\* loader catches every Exception) returns an ordered sequence of records,
\* and the empty sequence when the file is missing or its text is not JSON.
C14_LoadReturnsRecords ==
  rd_pc # "idle" =>
    /\ ListOfRecords(training_data)
    /\ MissingOrCorrupt => training_data = PyList(<<>>)


\* C15: a load made by a reader that does not take file_lock, while a call
\* of save_conversation holds the lock, returns the log as it was when that
\* call took the lock or that log with the record of the call added at its
\* end (so never fewer records than were persisted), in runs where no I/O
\* operation fails.
C15_ReaderSeesBeforeOrAfter ==
  [][(Read /\ ~faulted') =>
       \A t \in Threads :
         pc[t] \in Critical =>
           /\ training_data'.k = "list"
           /\ \/ training_data'.v = snap[t]
              \/ training_data'.v = Append(snap[t], conversation_data[t])]_vars
=============================================================================
